---- MODULE Spec2Model ----
(***************************************************************************)
(* ULTIMA-PRIME CI diagnosis scanner (tools/ultimaprime/scan_ci.py).       *)
(*                                                                         *)
(* A log text is a sequence of atoms.  Every atom stands for a fixed piece *)
(* of text; the regular expressions of parse_output are evaluated on the   *)
(* atoms with the character offsets, greediness and backtracking that      *)
(* re.finditer has on the text the atoms spell:                            *)
(*   NE   NameError: name 'Optional' is not defined                        *)
(*   NL   a line break            SP   a blank          Z   the letter z   *)
(*   PAD  a run of PadWidth letters z                                      *)
(*   MNF  ModuleNotFoundError: No module named 'RestrictedPython'          *)
(*   FLD  Field(                  RGX  regex=           RP  )              *)
(*   ERR  ERROR                   UNK  unknown pytest.mark.                *)
(*   IMP  ImportError: cannot import name '                                *)
(*   FRM  ' from '                Q    '                                   *)
(* Upper-case variants of the signatures (re.IGNORECASE of detector 1, the *)
(* [Uu] of detector 4) are not in the alphabet.                            *)
(***************************************************************************)
EXTENDS Integers, Sequences, FiniteSets, TLC

VARIABLES pc, args, disk, output, rc, issues, report, stderr, exit_code

vars == <<pc, args, disk, output, rc, issues, report, stderr, exit_code>>

(* ---------------------------- bounds ---------------------------------- *)
MaxFrags == 2
PadWidth == 310

(* ---------------------------- the alphabet ---------------------------- *)
AtomWidth ==
  [NE |-> 41, NL |-> 1, SP |-> 1, Z |-> 1, PAD |-> PadWidth, MNF |-> 55,
   FLD |-> 6, RGX |-> 6, RP |-> 1, ERR |-> 5, UNK |-> 20, IMP |-> 33,
   FRM |-> 8, Q |-> 1]

\* length of the longest prefix of the atom made of \w characters
AtomWordPrefix ==
  [NE |-> 9, NL |-> 0, SP |-> 0, Z |-> 1, PAD |-> PadWidth, MNF |-> 19,
   FLD |-> 5, RGX |-> 5, RP |-> 0, ERR |-> 5, UNK |-> 7, IMP |-> 11,
   FRM |-> 0, Q |-> 0]

\* offset of the first ' in the atom, -1 when it has none
AtomQuotePos ==
  [NE |-> 16, NL |-> -1, SP |-> -1, Z |-> -1, PAD |-> -1, MNF |-> 37,
   FLD |-> -1, RGX |-> -1, RP |-> -1, ERR |-> -1, UNK |-> -1, IMP |-> 32,
   FRM |-> 0, Q |-> 0]

\* offsets of the whitespace characters of the atom (str.isspace)
AtomSpaces ==
  [NE |-> {10, 15, 26, 29, 33}, NL |-> {0}, SP |-> {0}, Z |-> {}, PAD |-> {},
   MNF |-> {20, 23, 30, 36}, FLD |-> {}, RGX |-> {}, RP |-> {}, ERR |-> {},
   UNK |-> {7}, IMP |-> {12, 19, 26, 31}, FRM |-> {1, 6}, Q |-> {}]

\* the pieces a log text is assembled from: single atoms, and the atoms of
\* one whole signature
Fragments ==
  { <<"NE">>, <<"NL">>, <<"SP">>, <<"Z">>, <<"PAD">>, <<"MNF">>, <<"FLD">>,
    <<"RGX">>, <<"RP">>, <<"ERR">>, <<"UNK">>, <<"IMP", "Z", "FRM">>, <<"Q">>,
    <<"NE", "NL">>, <<"FLD", "RGX">>, <<"ERR", "UNK", "Z">>,
    <<"IMP", "Z", "FRM", "Z", "Q">> }

RECURSIVE TextsOf(_)
TextsOf(n) ==
  IF n = 0 THEN { <<>> }
  ELSE LET shorter == TextsOf(n - 1)
       IN  shorter \cup { t \o f : t \in shorter, f \in Fragments }

Texts == TextsOf(MaxFrags)

(* ---------------------------- text primitives ------------------------- *)
Max(a, b) == IF a > b THEN a ELSE b
Min(a, b) == IF a < b THEN a ELSE b

\* character offset (0-based) at which atom i of t starts; i may be Len(t)+1
RECURSIVE Off(_, _)
Off(t, i) == IF i <= 1 THEN 0 ELSE Off(t, i - 1) + AtomWidth[t[i - 1]]

\* len(output)
TextLen(t) == Off(t, Len(t) + 1)

\* index of the atom that holds the character at offset p, 0 <= p < TextLen(t)
RECURSIVE AtomAt(_, _, _)
AtomAt(t, p, i) ==
  IF Off(t, i + 1) > p THEN i ELSE AtomAt(t, p, i + 1)

\* str.isspace of the character at offset p
IsSpace(t, p) ==
  LET i == AtomAt(t, p, 1) IN (p - Off(t, i)) \in AtomSpaces[t[i]]

\* the first atom that starts at or after offset e
RECURSIVE FirstAtOrAfter(_, _, _)
FirstAtOrAfter(t, e, i) ==
  IF i <= Len(t) /\ Off(t, i) < e THEN FirstAtOrAfter(t, e, i + 1) ELSE i

\* output[a:b] as the pair of offsets Python's slicing selects
PySlice(n, a, b) ==
  LET lo == IF a < 0 THEN Max(a + n, 0) ELSE Min(a, n)
      hi == IF b < 0 THEN Max(b + n, 0) ELSE Min(b, n)
  IN  <<lo, Max(lo, hi)>>

RECURSIVE LStrip(_, _, _)
LStrip(t, lo, hi) ==
  IF lo < hi /\ IsSpace(t, lo) THEN LStrip(t, lo + 1, hi) ELSE lo

RECURSIVE RStrip(_, _, _)
RStrip(t, lo, hi) ==
  IF lo < hi /\ IsSpace(t, hi - 1) THEN RStrip(t, lo, hi - 1) ELSE hi

\* str.strip() of the substring [s[1], s[2]) of t
Strip(t, s) ==
  LET lo == LStrip(t, s[1], s[2])
  IN  <<lo, RStrip(t, lo, s[2])>>

(* ---------------------------- the five patterns ----------------------- *)
NoMatch == [start |-> -1, end |-> -1, groups |-> <<>>]

\* smallest j in i+1..Len(t) with t[j] = a, Len(t)+1 when there is none
RECURSIVE NextAtom(_, _, _)
NextAtom(t, a, j) ==
  IF j > Len(t) \/ t[j] = a THEN j ELSE NextAtom(t, a, j + 1)

SetMax(S) == CHOOSE x \in S : \A y \in S : y <= x

\* end offset of a greedy \w+ that starts with atom j
RECURSIVE WordEnd(_, _)
WordEnd(t, j) ==
  IF j > Len(t) THEN Off(t, j)
  ELSE IF AtomWordPrefix[t[j]] < AtomWidth[t[j]]
       THEN Off(t, j) + AtomWordPrefix[t[j]]
       ELSE WordEnd(t, j + 1)

\* NameError: name 'Optional' is not defined.*?\n
MatchOptional(t, i) ==
  IF t[i] # "NE" THEN NoMatch
  ELSE LET j == NextAtom(t, "NL", i + 1)
       IN  IF j > Len(t) THEN NoMatch
           ELSE [start |-> Off(t, i), end |-> Off(t, j) + 1, groups |-> <<>>]

\* ModuleNotFoundError: No module named 'RestrictedPython'
MatchDependency(t, i) ==
  IF t[i] # "MNF" THEN NoMatch
  ELSE [start |-> Off(t, i), end |-> Off(t, i + 1), groups |-> <<>>]

\* Field\([^)]*regex=
MatchPydantic(t, i) ==
  IF t[i] # "FLD" THEN NoMatch
  ELSE LET r == NextAtom(t, "RP", i + 1)
           c == { j \in (i + 1)..(r - 1) : t[j] = "RGX" }
       IN  IF c = {} THEN NoMatch
           ELSE [start |-> Off(t, i), end |-> Off(t, SetMax(c) + 1),
                 groups |-> <<>>]

\* ERROR.*[Uu]nknown pytest\.mark\.(\w+)
MatchMarker(t, i) ==
  IF t[i] # "ERR" THEN NoMatch
  ELSE LET r == NextAtom(t, "NL", i + 1)
           c == { j \in (i + 1)..(r - 1) :
                    /\ t[j] = "UNK"
                    /\ j + 1 <= Len(t)
                    /\ AtomWordPrefix[t[j + 1]] > 0 }
       IN  IF c = {} THEN NoMatch
           ELSE LET j == SetMax(c)
                    e == WordEnd(t, j + 1)
                IN  [start |-> Off(t, i), end |-> e,
                     groups |-> << <<Off(t, j + 1), e>> >>]

\* first atom from k on that is not made of \w characters only
RECURSIVE WordRun(_, _)
WordRun(t, k) ==
  IF k <= Len(t) /\ AtomWordPrefix[t[k]] = AtomWidth[t[k]]
  THEN WordRun(t, k + 1) ELSE k

\* first atom from q on that holds a quote
RECURSIVE QuoteAtom(_, _)
QuoteAtom(t, q) ==
  IF q <= Len(t) /\ AtomQuotePos[t[q]] < 0 THEN QuoteAtom(t, q + 1) ELSE q

\* ImportError: cannot import name '(\w+)' from '([^']+)'
MatchImport(t, i) ==
  IF t[i] # "IMP" THEN NoMatch
  ELSE LET k == WordRun(t, i + 1)
       IN  IF k = i + 1 \/ k > Len(t) \/ t[k] # "FRM" THEN NoMatch
           ELSE LET q == QuoteAtom(t, k + 1)
                IN  IF q > Len(t) THEN NoMatch
                    ELSE LET e == Off(t, q) + AtomQuotePos[t[q]]
                         IN  IF e = Off(t, k + 1) THEN NoMatch
                             ELSE [start |-> Off(t, i), end |-> e + 1,
                                   groups |-> << <<Off(t, i + 1), Off(t, k)>>,
                                                 <<Off(t, k + 1), e>> >>]

\* detector registration order
Detectors ==
  <<"MissingOptionalImport", "MissingDependency", "PydanticV2Migration",
    "UnknownPytestMarker", "ImportError">>

MatchAt(d, t, i) ==
  CASE d = "MissingOptionalImport" -> MatchOptional(t, i)
    [] d = "MissingDependency"     -> MatchDependency(t, i)
    [] d = "PydanticV2Migration"   -> MatchPydantic(t, i)
    [] d = "UnknownPytestMarker"   -> MatchMarker(t, i)
    [] d = "ImportError"           -> MatchImport(t, i)

\* re.finditer: leftmost matches, each search resuming at the previous end
RECURSIVE FindFrom(_, _, _)
FindFrom(d, t, i) ==
  IF i > Len(t) THEN <<>>
  ELSE LET m == MatchAt(d, t, i)
       IN  IF m = NoMatch THEN FindFrom(d, t, i + 1)
           ELSE <<m>> \o FindFrom(d, t, FirstAtOrAfter(t, m.end, i + 1))

finditer(d, t) == FindFrom(d, t, 1)

(* ---------------------------- parse_output ---------------------------- *)
\* characters of context kept before the match start, per detector
ContextBefore ==
  [MissingOptionalImport |-> 300, MissingDependency |-> 300,
   PydanticV2Migration |-> 300, UnknownPytestMarker |-> 200,
   ImportError |-> 200]

\* characters of context kept after the match end
ContextAfter == 200

\* the window start without the clamp at the start of the text
context_start_unclamped(d, m) == m.start - ContextBefore[d]

\* context_start = max(0, m.start() - before)
context_start(d, m) == Max(0, m.start - ContextBefore[d])

\* output[context_start:m.end() + 200].strip(), as offsets into output
Context(d, t, m) ==
  Strip(t, PySlice(TextLen(t), context_start(d, m), m.end + ContextAfter))

\* the dict appended for one match of detector d
IssueOf(d, t, m) ==
  CASE d = "MissingOptionalImport" ->
         [type |-> d, severity |-> "HIGH",
          pattern |-> "NameError: name 'Optional' is not defined",
          context |-> Context(d, t, m),
          fix |-> <<"add 'from typing import Optional' to the imports">>]
    [] d = "MissingDependency" ->
         [type |-> d, dependency |-> "RestrictedPython", severity |-> "HIGH",
          pattern |-> "ModuleNotFoundError: No module named 'RestrictedPython'",
          context |-> Context(d, t, m),
          fix |-> <<"add 'RestrictedPython>=6.0' to requirements.txt or pyproject.toml">>]
    [] d = "PydanticV2Migration" ->
         [type |-> d, severity |-> "MEDIUM",
          pattern |-> "Field(..., regex=...)",
          context |-> Context(d, t, m),
          fix |-> <<"replace 'regex=' by 'pattern=' (Pydantic v2)">>]
    [] d = "UnknownPytestMarker" ->
         [type |-> d, severity |-> "MEDIUM",
          context |-> Context(d, t, m),
          fix |-> <<"define the marker in pytest.ini or conftest.py">>]
    [] d = "ImportError" ->
         [type |-> d, severity |-> "HIGH",
          imported_name |-> m.groups[1], from_module |-> m.groups[2],
          context |-> Context(d, t, m),
          fix |-> <<"check the export of name from module",
                    m.groups[1], m.groups[2]>>]

\* re.search in place of re.finditer: only the first match is reported
DetectorIssues_first(d, t) ==
  LET ms == finditer(d, t)
  IN  [x \in 1..Min(1, Len(ms)) |-> IssueOf(d, t, ms[x])]

\* the issues one detector's loop appends
DetectorIssues(d, t) ==
  LET ms == finditer(d, t) IN [x \in 1..Len(ms) |-> IssueOf(d, t, ms[x])]

\* the detector loops run from the last registered detector to the first
RECURSIVE ScanDown(_, _)
ScanDown(k, t) ==
  IF k < 1 THEN <<>>
  ELSE LET ms == finditer(Detectors[k], t)
       IN  [x \in 1..Len(ms) |-> IssueOf(Detectors[k], t, ms[x])]
             \o ScanDown(k - 1, t)

parse_output_reversed(t) == ScanDown(Len(Detectors), t)

RECURSIVE ScanFrom(_, _)
ScanFrom(k, t) ==
  IF k > Len(Detectors) THEN <<>>
  ELSE DetectorIssues(Detectors[k], t) \o ScanFrom(k + 1, t)

parse_output(t) == ScanFrom(1, t)

(* ---------------------------- the report ------------------------------ *)
\* dict.get(key, default)
Get(d, key, default) == IF key \in DOMAIN d THEN d[key] ELSE default

\* the count taken over the distinct issue dicts instead of the list
CountSeverity_distinct(iss, sev) ==
  Cardinality({ iss[x] : x \in { y \in 1..Len(iss) :
                                   Get(iss[y], "severity", "") = sev } })

\* len([i for i in issues if i.get("severity") == sev])
CountSeverity(iss, sev) ==
  Cardinality({ x \in 1..Len(iss) : Get(iss[x], "severity", "") = sev })

by_severity(iss) ==
  [HIGH   |-> CountSeverity(iss, "HIGH"),
   MEDIUM |-> CountSeverity(iss, "MEDIUM"),
   LOW    |-> CountSeverity(iss, "LOW")]

\* the report dict of main()
Report(ts, code, iss) ==
  [timestamp |-> ts, return_code |-> code, total_issues |-> Len(iss),
   issues |-> iss, by_severity |-> by_severity(iss)]

\* json.dumps(report): the document keeps the mapping's fields and nesting
json_dumps(r) == [format |-> "json", document |-> r]

\* context.split('\n'), as offsets into the scanned text
RECURSIVE SplitLines(_, _, _, _)
SplitLines(t, lo, hi, i) ==
  IF i > Len(t) \/ Off(t, i) >= hi THEN << <<lo, hi>> >>
  ELSE IF t[i] = "NL" /\ Off(t, i) >= lo
       THEN << <<lo, Off(t, i)>> >> \o SplitLines(t, Off(t, i) + 1, hi, i + 1)
       ELSE SplitLines(t, lo, hi, i + 1)

\* number of context lines an entry of the human report shows
MaxContextLines == 5

\* for line in issue.get('context', '').split('\n')[:5]
ContextLines(t, issue) ==
  LET c  == Get(issue, "context", <<0, 0>>)
      ls == SplitLines(t, c[1], c[2], 1)
  IN  [x \in 1..Min(MaxContextLines, Len(ls)) |-> <<"ctx", ls[x][1], ls[x][2]>>]

\* issue.get('pattern', issue.get('imported_name', 'N/A')), formatted
ShownPattern(issue) ==
  IF "pattern" \in DOMAIN issue THEN <<"text", issue.pattern>>
  ELSE IF "imported_name" \in DOMAIN issue
       THEN <<"substring", issue.imported_name[1], issue.imported_name[2]>>
       ELSE <<"text", "N/A">>

\* enumerate(issues) without the start index
EntryLines_from0(t, x, issue) ==
  << <<"blank">>,
     <<"entry", x - 1, Get(issue, "type", "Unknown"),
       Get(issue, "severity", "N/A")>>,
     <<"pattern", ShownPattern(issue)>>,
     <<"fix", Get(issue, "fix", <<"Manual review needed">>)>>,
     <<"context:">> >> \o ContextLines(t, issue)

\* the lines one issue adds to the human report
EntryLines(t, x, issue) ==
  << <<"blank">>,
     <<"entry", x, Get(issue, "type", "Unknown"), Get(issue, "severity", "N/A")>>,
     <<"pattern", ShownPattern(issue)>>,
     <<"fix", Get(issue, "fix", <<"Manual review needed">>)>>,
     <<"context:">> >> \o ContextLines(t, issue)

RECURSIVE AllEntries(_, _, _)
AllEntries(t, iss, x) ==
  IF x > Len(iss) THEN <<>>
  ELSE EntryLines(t, x, iss[x]) \o AllEntries(t, iss, x + 1)

\* txt_lines of main(): the header, the summary and one entry per issue
txt_lines(t, r, code, iss) ==
  << <<"border">>, <<"title">>, <<"time", r.timestamp>>,
     <<"return code", code>>, <<"border">>, <<"blank">>,
     <<"HIGH", r.by_severity.HIGH>>, <<"MEDIUM", r.by_severity.MEDIUM>>,
     <<"LOW", r.by_severity.LOW>>, <<"TOTAL", r.total_issues>>,
     <<"blank">>, <<"border">> >> \o AllEntries(t, iss, 1)

(* ---------------------------- main() ---------------------------------- *)
\* return codes the captured pytest run may report
PytestCodes == {0, 1}

\* rc recorded when the log comes from a file
LogFileRc == 0

EXIT_NOT_FOUND == 1
EXIT_NO_ORIGIN == 2
\* status of the interpreter when an exception leaves main()
EXIT_UNCAUGHT == 1

\* main() returning 0 whatever was found
ExitStatus_zero(iss) == 0

\* return 0 if len(issues) == 0 else 1
ExitStatus(iss) == IF Len(iss) = 0 THEN 0 ELSE 1

\* the command line
ArgSpace == [run_pytest : BOOLEAN, pytest_log : {<<>>, <<"pytest.log">>}]

\* diagnostics/ before the invocation: no artifacts, or those of an earlier
\* invocation that scanned an empty log
NoArtifacts == [json |-> <<>>, txt |-> <<>>]
EarlierReport == Report("earlier", LogFileRc, <<>>)
EarlierArtifacts ==
  [json |-> <<json_dumps(EarlierReport)>>,
   txt  |-> <<txt_lines(<<>>, EarlierReport, LogFileRc, <<>>)>>]

Init ==
  /\ pc = "gather"
  /\ args \in ArgSpace
  /\ disk \in {NoArtifacts, EarlierArtifacts}
  /\ output = <<>>
  /\ rc = 0
  /\ issues = <<>>
  /\ report = <<>>
  /\ stderr = <<>>
  /\ exit_code = <<>>

\* if args.run_pytest: rc, output = run_pytest_and_capture()
RunPytest ==
  /\ pc = "gather"
  /\ args.run_pytest
  /\ \E code \in PytestCodes, t \in Texts :
       /\ rc' = code
       /\ output' = t
  /\ pc' = "parse"
  /\ UNCHANGED <<args, disk, issues, report, stderr, exit_code>>

\* subprocess.run cannot start pytest: the exception leaves main()
RunPytestFails ==
  /\ pc = "gather"
  /\ args.run_pytest
  /\ stderr' = <<"Traceback">>
  /\ exit_code' = <<EXIT_UNCAUGHT>>
  /\ pc' = "exited"
  /\ UNCHANGED <<args, disk, output, rc, issues, report>>

\* elif args.pytest_log: output = read_text(); rc = 0
ReadLog ==
  /\ pc = "gather"
  /\ ~args.run_pytest
  /\ args.pytest_log # <<>>
  /\ \E t \in Texts : output' = t
  /\ rc' = LogFileRc
  /\ pc' = "parse"
  /\ UNCHANGED <<args, disk, issues, report, stderr, exit_code>>

\* except FileNotFoundError: sys.exit(1)
LogNotFound ==
  /\ pc = "gather"
  /\ ~args.run_pytest
  /\ args.pytest_log # <<>>
  /\ stderr' = <<"[ERROR] log not found">>
  /\ exit_code' = <<EXIT_NOT_FOUND>>
  /\ pc' = "exited"
  /\ UNCHANGED <<args, disk, output, rc, issues, report>>

\* the else branch reports the error and goes on to scan an empty text
NoOrigin_continues ==
  /\ pc = "gather"
  /\ ~args.run_pytest
  /\ args.pytest_log = <<>>
  /\ stderr' = <<"[ERROR] give --run-pytest or --pytest-log">>
  /\ output' = <<>>
  /\ pc' = "parse"
  /\ UNCHANGED <<args, disk, rc, issues, report, exit_code>>

\* else: sys.exit(2)
NoOrigin ==
  /\ pc = "gather"
  /\ ~args.run_pytest
  /\ args.pytest_log = <<>>
  /\ stderr' = <<"[ERROR] give --run-pytest or --pytest-log">>
  /\ exit_code' = <<EXIT_NO_ORIGIN>>
  /\ pc' = "exited"
  /\ UNCHANGED <<args, disk, output, rc, issues, report>>

\* issues = parse_output(output)
Parse ==
  /\ pc = "parse"
  /\ issues' = parse_output(output)
  /\ pc' = "report"
  /\ UNCHANGED <<args, disk, output, rc, report, stderr, exit_code>>

\* report = {...}
BuildReport ==
  /\ pc = "report"
  /\ report' = <<Report("now", rc, issues)>>
  /\ pc' = "write_json"
  /\ UNCHANGED <<args, disk, output, rc, issues, stderr, exit_code>>

\* json_path.write_text(json.dumps(report))
WriteJson ==
  /\ pc = "write_json"
  /\ disk' = [disk EXCEPT !.json = <<json_dumps(report[1])>>]
  /\ pc' = "write_txt"
  /\ UNCHANGED <<args, output, rc, issues, report, stderr, exit_code>>

\* txt_path.write_text("\n".join(txt_lines))
WriteTxt ==
  /\ pc = "write_txt"
  /\ disk' = [disk EXCEPT !.txt = <<txt_lines(output, report[1], rc, issues)>>]
  /\ pc' = "return"
  /\ UNCHANGED <<args, output, rc, issues, report, stderr, exit_code>>

\* sys.exit(main())
Return ==
  /\ pc = "return"
  /\ exit_code' = <<ExitStatus(issues)>>
  /\ pc' = "exited"
  /\ UNCHANGED <<args, disk, output, rc, issues, report, stderr>>

Next ==
  \/ RunPytest
  \/ RunPytestFails
  \/ ReadLog
  \/ LogNotFound
  \/ NoOrigin
  \/ Parse
  \/ BuildReport
  \/ WriteJson
  \/ WriteTxt
  \/ Return

Spec == Init /\ [][Next]_vars

(* ---------------------------- properties ------------------------------ *)
\* the invocation got past parse_output
Scanned == pc \in {"report", "write_json", "write_txt", "return"}
           \/ (pc = "exited" /\ report # <<>>)

\* both artifacts of this invocation are on disk
Emitted == pc \in {"return", "exited"} /\ report # <<>>

NoOriginGiven == ~args.run_pytest /\ args.pytest_log = <<>>

\* position of a kind in the registration order
DetectorIndex(kind) == CHOOSE k \in 1..Len(Detectors) : Detectors[k] = kind

\* the issues of one kind, in the order of the issue list
KindSeq(iss, kind) == SelectSeq(iss, LAMBDA i : i.type = kind)

\* the lines of the human report that carry one tag
Tagged(lines, tag) == SelectSeq(lines, LAMBDA l : l[1] = tag)

\* exit status of a scan that found something
IssuesDetectedStatus == ExitStatus(<<"an issue">>)

\* C1: in the report built by main() the HIGH, MEDIUM and LOW counts add up
\* to total_issues, which is the number of issues parse_output returned.
C1_SeveritySum ==
  \A x \in 1..Len(report) :
    LET r == report[x]
    IN  /\ r.by_severity.HIGH + r.by_severity.MEDIUM + r.by_severity.LOW
             = r.total_issues
        /\ r.total_issues = Len(parse_output(output))

C1_Witness ==
  /\ report # <<>>
  /\ report[1].by_severity.HIGH >= 1
  /\ report[1].by_severity.MEDIUM >= 1

\* C2: once both artifacts are written, report.txt states the total and the
\* three severity counts of report.json and holds one entry per issue of
\* report.json, numbered 1..total_issues in the same order.
C2_ArtifactsAgree ==
  Emitted =>
    LET doc     == disk.json[1].document
        lines   == disk.txt[1]
        entries == Tagged(lines, "entry")
    IN  /\ Tagged(lines, "TOTAL")  = << <<"TOTAL", doc.total_issues>> >>
        /\ Tagged(lines, "HIGH")   = << <<"HIGH", doc.by_severity.HIGH>> >>
        /\ Tagged(lines, "MEDIUM") = << <<"MEDIUM", doc.by_severity.MEDIUM>> >>
        /\ Tagged(lines, "LOW")    = << <<"LOW", doc.by_severity.LOW>> >>
        /\ Len(entries) = doc.total_issues
        /\ Len(doc.issues) = doc.total_issues
        /\ \A x \in 1..Len(entries) :
             entries[x] = <<"entry", x, doc.issues[x].type,
                            doc.issues[x].severity>>

C2_Witness ==
  /\ Emitted
  /\ disk.json[1].document.total_issues >= 2
  /\ disk.json[1].document.by_severity.MEDIUM >= 1
  /\ disk.json[1].document.by_severity.HIGH >= 1

\* C3: the issue list is ordered by detector registration order, and within
\* one detector by increasing match position; a later detector's issue never
\* precedes an earlier detector's, wherever the two matched in the text.
C3_DetectorThenMatchOrder ==
  Scanned =>
    /\ \A x, y \in 1..Len(issues) :
         x < y => DetectorIndex(issues[x].type) <= DetectorIndex(issues[y].type)
    /\ \A k \in 1..Len(Detectors) :
         LET ms == finditer(Detectors[k], output)
             ks == KindSeq(issues, Detectors[k])
         IN  /\ \A x \in 1..Len(ks) :
                  x <= Len(ms) /\ ks[x] = IssueOf(Detectors[k], output, ms[x])
             /\ \A x \in 1..(Len(ms) - 1) : ms[x].end <= ms[x + 1].start

\* a MissingDependency match that lies after a PydanticV2Migration match
C3_Witness ==
  /\ Scanned
  /\ Len(issues) = 2
  /\ issues[1].type = "MissingDependency"
  /\ issues[2].type = "PydanticV2Migration"
  /\ finditer("PydanticV2Migration", output)[1].end
       <= finditer("MissingDependency", output)[1].start

\* C4: every detector contributes one issue per non-overlapping match of its
\* pattern, whatever the other detectors matched; nothing is merged,
\* deduplicated or suppressed, so n occurrences of the dependency signature
\* give n MissingDependency issues.
C4_OneIssuePerMatch ==
  Scanned =>
    /\ \A k \in 1..Len(Detectors) :
         Len(KindSeq(issues, Detectors[k])) = Len(finditer(Detectors[k], output))
    /\ Len(KindSeq(issues, "MissingDependency"))
         = Cardinality({ i \in 1..Len(output) : output[i] = "MNF" })

\* the same signature twice, giving two equal issue records
C4_Witness ==
  /\ Scanned
  /\ Len(issues) >= 2
  /\ issues[1] = issues[2]

\* C5: the context of a match at [start, end) with budget (before, after) is
\* the part of the text between max(0, start - before) and
\* min(n, end + after) with the whitespace at both ends removed.
C5_ContextWithinWindow ==
  Scanned =>
    \A k \in 1..Len(Detectors) :
      LET d  == Detectors[k]
          ms == finditer(d, output)
          ks == KindSeq(issues, d)
          n  == TextLen(output)
      IN  \A x \in 1..Len(ms) :
            /\ x <= Len(ks)
            /\ LET wlo == Max(0, ms[x].start - ContextBefore[d])
                   whi == Min(n, ms[x].end + ContextAfter)
                   c   == ks[x].context
               IN  /\ wlo <= c[1] /\ c[1] <= c[2] /\ c[2] <= whi
                   /\ \A p \in wlo..(c[1] - 1) : IsSpace(output, p)
                   /\ \A p \in c[2]..(whi - 1) : IsSpace(output, p)
                   /\ c[1] < c[2] =>
                        ~IsSpace(output, c[1]) /\ ~IsSpace(output, c[2] - 1)

\* a match closer than the budget to both ends of the text, with whitespace
\* stripped from the window
C5_Witness ==
  /\ Scanned
  /\ \E x \in 1..Len(finditer("MissingOptionalImport", output)) :
       LET m == finditer("MissingOptionalImport", output)[x]
           c == KindSeq(issues, "MissingOptionalImport")[x].context
       IN  /\ m.start < ContextBefore["MissingOptionalImport"]
           /\ m.end + ContextAfter > TextLen(output)
           /\ 0 < c[1]
           /\ c[2] < TextLen(output)

\* a match whose window starts inside the text, further than the budget
\* from its start
C5_WitnessInner ==
  /\ Scanned
  /\ \E x \in 1..Len(finditer("MissingDependency", output)) :
       /\ finditer("MissingDependency", output)[x].start
            > ContextBefore["MissingDependency"]
       /\ KindSeq(issues, "MissingDependency")[x].context[1] > 0

\* C6: an invocation without --run-pytest and without --pytest-log ends with
\* the configuration-error status before any scan and leaves report.json and
\* report.txt as they were.
C6_NoOriginWritesNothing ==
  [][NoOriginGiven =>
       /\ disk' = disk
       /\ pc' = "exited"
       /\ exit_code' = <<EXIT_NO_ORIGIN>>
       /\ issues' = <<>>
       /\ report' = <<>>]_vars

C6_Witness ==
  /\ NoOriginGiven
  /\ pc = "exited"
  /\ disk = EarlierArtifacts

\* C7: the exit status is 0 exactly when a scan completed without issues, it
\* is not 0 when a scan completed with issues, and without an origin it is a
\* non-zero status other than the one for detected issues.
C7_ExitStatus ==
  pc = "exited" =>
    /\ Len(exit_code) = 1
    /\ exit_code[1] = 0 <=> (report # <<>> /\ Len(issues) = 0)
    /\ (report # <<>> /\ Len(issues) > 0) => exit_code[1] # 0
    /\ NoOriginGiven => exit_code[1] \notin {0, IssuesDetectedStatus}

\* a pytest run that failed without a known signature still exits with 0
C7_Witness ==
  /\ pc = "exited"
  /\ exit_code = <<0>>
  /\ rc = 1
  /\ output # <<>>

C7_WitnessIssues ==
  /\ pc = "exited"
  /\ exit_code = <<1>>
  /\ Len(issues) > 0

\* C8: each fatal error (no origin, log file missing, pytest cannot be
\* started) ends the invocation with a non-zero status that differs from the
\* status of the other two errors and from the status of a scan with issues.
C8_DistinctFatalStatuses ==
  (pc = "exited" /\ stderr # <<>>) =>
    /\ exit_code[1] # 0
    /\ exit_code[1] # IssuesDetectedStatus
    /\ stderr = <<"[ERROR] give --run-pytest or --pytest-log">> =>
         exit_code[1] \notin {EXIT_NOT_FOUND, EXIT_UNCAUGHT}
    /\ stderr = <<"[ERROR] log not found">> =>
         exit_code[1] \notin {EXIT_NO_ORIGIN, EXIT_UNCAUGHT}
    /\ stderr = <<"Traceback">> =>
         exit_code[1] \notin {EXIT_NO_ORIGIN, EXIT_NOT_FOUND}

\* C9: every occurrence of NameError: name 'Optional' is not defined in the
\* text, also one that ends the text, lies in a match that gave a
\* MissingOptionalImport issue of severity HIGH.
C9_EveryOptionalErrorReported ==
  Scanned =>
    \A i \in 1..Len(output) :
      output[i] = "NE" =>
        LET ms == finditer("MissingOptionalImport", output)
            ks == KindSeq(issues, "MissingOptionalImport")
        IN  \E x \in 1..Len(ks) :
              /\ x <= Len(ms)
              /\ ms[x].start <= Off(output, i)
              /\ Off(output, i + 1) <= ms[x].end
              /\ ks[x].severity = "HIGH"

\* C10: the entry of an issue in the human report shows the issue's pattern,
\* or without one the identifier extracted from the match (the marker name
\* of an UnknownPytestMarker, the symbol of an ImportError), and an
\* UnknownPytestMarker issue records the marker name.
C10_EntryShowsPatternOrIdentifier ==
  Emitted =>
    LET shown == Tagged(disk.txt[1], "pattern")
        own   == {"type", "severity", "pattern", "dependency", "context", "fix"}
    IN  /\ Len(shown) = Len(issues)
        /\ \A x \in 1..Len(issues) :
             LET i == issues[x] IN
               /\ "pattern" \in DOMAIN i => shown[x][2] = <<"text", i.pattern>>
               /\ i.type = "ImportError" =>
                    shown[x][2] = <<"substring", i.imported_name[1],
                                    i.imported_name[2]>>
               /\ i.type = "UnknownPytestMarker" =>
                    \E j \in 1..Len(finditer(i.type, output)) :
                      LET g == finditer(i.type, output)[j].groups[1]
                      IN  /\ shown[x][2] = <<"substring", g[1], g[2]>>
                          /\ \E key \in (DOMAIN i) \ own : i[key] = g

====
